---------------------------- MODULE Spec2Model ----------------------------
(***************************************************************************)
(* Model of server/utils/queries/libraryFilters.js: filter-token decoding, *)
(* filter parsing, the shelf operations built on the Book and Podcast      *)
(* filter strategies, and the recent-series shelf with its sequence sort.  *)
(*                                                                         *)
(* JavaScript strings are sequences of code points (integers), so that     *)
(* percent-decoding, base64 and UTF-8 are computed on the character codes. *)
(* Optional JavaScript values are tagged records: Null, Undefined, Str(s). *)
(***************************************************************************)
EXTENDS Integers, Sequences, FiniteSets, TLC

----------------------------------------------------------------------------
(* JavaScript values *)

Null == [type |-> "null"]

Undefined == [type |-> "undefined"]

Str(s) == [type |-> "string", chars |-> s]

Num(n) == [type |-> "number", val |-> n]

Bool(b) == [type |-> "boolean", val |-> b]

IsStr(v) == v.type = "string"

\* JavaScript ToBoolean on the values used here
Truthy(v) ==
  CASE v.type = "null" -> FALSE
    [] v.type = "undefined" -> FALSE
    [] v.type = "string" -> v.chars # <<>>
    [] v.type = "number" -> v.val # 0
    [] v.type = "boolean" -> v.val
    [] OTHER -> TRUE

\* All sequences over alphabet A of length at most n
RECURSIVE SeqsUpTo(_, _)
SeqsUpTo(A, n) ==
  IF n = 0 THEN {<<>>}
  ELSE LET shorter == SeqsUpTo(A, n - 1)
       IN shorter \cup {Append(s, c) : s \in {t \in shorter : Len(t) = n - 1}, c \in A}

\* String.prototype.startsWith
StartsWith(s, p) ==
  /\ Len(p) <= Len(s)
  /\ SubSeq(s, 1, Len(p)) = p

\* String.prototype.indexOf, 1-based; 0 when p does not occur in s
IndexOf(s, p) ==
  LET hits == {i \in 1..(Len(s) - Len(p) + 1) : SubSeq(s, i, i + Len(p) - 1) = p}
  IN IF hits = {} THEN 0 ELSE CHOOSE i \in hits : \A j \in hits : i <= j

\* String.prototype.replace(pattern, '') with a string pattern: removes the
\* first occurrence only
ReplaceFirstWithEmpty(s, p) ==
  LET i == IndexOf(s, p)
  IN IF i = 0 THEN s
     ELSE SubSeq(s, 1, i - 1) \o SubSeq(s, i + Len(p), Len(s))

----------------------------------------------------------------------------
(* decode(text): Buffer.from(decodeURIComponent(text), 'base64').toString() *)

PercentSign == 37

EqualsSign == 61

ReplacementChar == 65533

\* value of a hexadecimal digit, -1 for any other character
HexVal(c) ==
  IF c >= 48 /\ c <= 57 THEN c - 48
  ELSE IF c >= 65 /\ c <= 70 THEN c - 55
  ELSE IF c >= 97 /\ c <= 102 THEN c - 87
  ELSE -1

\* byte of the escape %XY starting at position i of s, -1 when malformed
EscapeByte(s, i) ==
  IF i + 2 > Len(s) \/ s[i] # PercentSign THEN -1
  ELSE IF HexVal(s[i + 1]) < 0 \/ HexVal(s[i + 2]) < 0 THEN -1
  ELSE 16 * HexVal(s[i + 1]) + HexVal(s[i + 2])

\* number of bytes of the UTF-8 sequence a lead byte announces, 0 when the
\* byte cannot start a sequence
Utf8Length(b) ==
  IF b < 128 THEN 1
  ELSE IF b >= 194 /\ b <= 223 THEN 2
  ELSE IF b >= 224 /\ b <= 239 THEN 3
  ELSE IF b >= 240 /\ b <= 244 THEN 4
  ELSE 0

\* is c acceptable as the k-th byte (k >= 2) after lead byte b
Utf8ContinuationOk(b, k, c) ==
  LET lo == IF k = 2 /\ b = 224 THEN 160
            ELSE IF k = 2 /\ b = 240 THEN 144 ELSE 128
      hi == IF k = 2 /\ b = 237 THEN 159
            ELSE IF k = 2 /\ b = 244 THEN 143 ELSE 191
  IN c >= lo /\ c <= hi

\* code point of a complete, valid UTF-8 sequence
Utf8CodePoint(bs) ==
  CASE Len(bs) = 1 -> bs[1]
    [] Len(bs) = 2 -> (bs[1] - 192) * 64 + (bs[2] - 128)
    [] Len(bs) = 3 -> (bs[1] - 224) * 4096 + (bs[2] - 128) * 64 + (bs[3] - 128)
    [] OTHER -> (bs[1] - 240) * 262144 + (bs[2] - 128) * 4096
                  + (bs[3] - 128) * 64 + (bs[4] - 128)

\* decodeURIComponent: [ok |-> TRUE, chars |-> ...] or [ok |-> FALSE] for the
\* URIError thrown on a malformed escape
RECURSIVE DecodeURIFrom(_, _, _)
DecodeURIFrom(s, i, acc) ==
  IF i > Len(s) THEN [ok |-> TRUE, chars |-> acc]
  ELSE IF s[i] # PercentSign THEN DecodeURIFrom(s, i + 1, Append(acc, s[i]))
  ELSE
    LET b == EscapeByte(s, i)
        n == IF b < 0 THEN 0 ELSE Utf8Length(b)
        bytes == [k \in 1..n |-> EscapeByte(s, i + 3 * (k - 1))]
    IN IF n = 0 THEN [ok |-> FALSE]
       ELSE IF \E k \in 2..n : bytes[k] < 0 \/ ~Utf8ContinuationOk(b, k, bytes[k])
         THEN [ok |-> FALSE]
       ELSE DecodeURIFrom(s, i + 3 * n, Append(acc, Utf8CodePoint(bytes)))

decodeURIComponent(s) == DecodeURIFrom(s, 1, <<>>)

\* 6-bit value of a base64 (or base64url) character, -1 for any other
Base64Val(c) ==
  IF c >= 65 /\ c <= 90 THEN c - 65
  ELSE IF c >= 97 /\ c <= 122 THEN c - 71
  ELSE IF c >= 48 /\ c <= 57 THEN c + 4
  ELSE IF c = 43 \/ c = 45 THEN 62
  ELSE IF c = 47 \/ c = 95 THEN 63
  ELSE -1

\* the 6-bit values Buffer.from(s, 'base64') consumes: characters outside the
\* alphabet are skipped and decoding stops at the first '='
RECURSIVE Base64Sextets(_, _, _)
Base64Sextets(s, i, acc) ==
  IF i > Len(s) \/ s[i] = EqualsSign THEN acc
  ELSE IF Base64Val(s[i]) < 0 THEN Base64Sextets(s, i + 1, acc)
  ELSE Base64Sextets(s, i + 1, Append(acc, Base64Val(s[i])))

\* bytes of a run of sextets: 4 sextets give 3 bytes, a trailing group of 3
\* gives 2, of 2 gives 1, and a single trailing sextet gives none
RECURSIVE SextetsToBytes(_, _)
SextetsToBytes(v, acc) ==
  IF Len(v) < 2 THEN acc
  ELSE
    LET b1 == (v[1] * 4) + (v[2] \div 16)
    IN IF Len(v) = 2 THEN Append(acc, b1)
       ELSE
         LET b2 == ((v[2] % 16) * 16) + (v[3] \div 4)
         IN IF Len(v) = 3 THEN acc \o <<b1, b2>>
            ELSE LET b3 == ((v[3] % 4) * 64) + v[4]
                 IN SextetsToBytes(SubSeq(v, 5, Len(v)), acc \o <<b1, b2, b3>>)

\* Buffer.from(s, 'base64'): never throws
Base64ToBytes(s) == SextetsToBytes(Base64Sextets(s, 1, <<>>), <<>>)

\* how many of the bytes after position i continue the sequence led by bs[i]
RECURSIVE Utf8Matched(_, _, _)
Utf8Matched(bs, i, k) ==
  IF k > Utf8Length(bs[i]) \/ i + k - 1 > Len(bs) THEN k - 1
  ELSE IF ~Utf8ContinuationOk(bs[i], k, bs[i + k - 1]) THEN k - 1
  ELSE Utf8Matched(bs, i, k + 1)

\* Buffer.prototype.toString() (utf8): never throws; an ill-formed sequence
\* becomes one U+FFFD for its maximal valid prefix
RECURSIVE Utf8ToString(_, _, _)
Utf8ToString(bs, i, acc) ==
  IF i > Len(bs) THEN acc
  ELSE
    LET n == Utf8Length(bs[i])
        m == IF n = 0 THEN 1 ELSE Utf8Matched(bs, i, 2)
    IN IF n > 0 /\ m = n
         THEN Utf8ToString(bs, i + n, Append(acc, Utf8CodePoint(SubSeq(bs, i, i + n - 1))))
       ELSE Utf8ToString(bs, i + m, Append(acc, ReplacementChar))

\* decode as it would be if text that is not base64 were refused
decode_RefusingNonBase64(text) ==
  LET u == decodeURIComponent(text)
  IN IF ~u.ok THEN [ok |-> FALSE]
     ELSE IF \E i \in 1..Len(u.chars) : Base64Val(u.chars[i]) < 0 /\ u.chars[i] # EqualsSign
       THEN [ok |-> FALSE]
     ELSE [ok |-> TRUE, chars |-> Utf8ToString(Base64ToBytes(u.chars), 1, <<>>)]

\* decode(text): the only failure is the URIError of decodeURIComponent
decode(text) ==
  LET u == decodeURIComponent(text)
  IN IF ~u.ok THEN [ok |-> FALSE]
     ELSE [ok |-> TRUE, chars |-> Utf8ToString(Base64ToBytes(u.chars), 1, <<>>)]

----------------------------------------------------------------------------
(* Filter parsing of getFilteredLibraryItems *)

Dot == 46

searchGroups == <<
    <<103, 101, 110, 114, 101, 115>>,                    \* genres
    <<116, 97, 103, 115>>,                               \* tags
    <<115, 101, 114, 105, 101, 115>>,                    \* series
    <<97, 117, 116, 104, 111, 114, 115>>,                \* authors
    <<112, 114, 111, 103, 114, 101, 115, 115>>,          \* progress
    <<110, 97, 114, 114, 97, 116, 111, 114, 115>>,       \* narrators
    <<112, 117, 98, 108, 105, 115, 104, 101, 114, 115>>, \* publishers
    <<109, 105, 115, 115, 105, 110, 103>>,               \* missing
    <<108, 97, 110, 103, 117, 97, 103, 101, 115>>,       \* languages
    <<116, 114, 97, 99, 107, 115>>,                      \* tracks
    <<101, 98, 111, 111, 107, 115>> >>                   \* ebooks

\* the predicate as it would be if the dot after the group were not asked for
GroupMatches_WithoutDot(filterBy, group) == StartsWith(filterBy, group)

\* the predicate handed to searchGroups.find
GroupMatches(filterBy, group) == StartsWith(filterBy, Append(group, Dot))

\* Array.prototype.find: the first matching element, Undefined when none
FindGroup(filterBy) ==
  LET hits == {i \in 1..Len(searchGroups) : GroupMatches(filterBy, searchGroups[i])}
  IN IF hits = {} THEN Undefined
     ELSE Str(searchGroups[CHOOSE i \in hits : \A j \in hits : i <= j])

\* the text handed to decode: filterBy.replace(`${group}.`, '')
StripGroup(filterBy, group) == ReplaceFirstWithEmpty(filterBy, Append(group, Dot))

\* lines 21-28: [ok |-> FALSE] when decode throws, else the two locals
ParseFilterBy(filterBy) ==
  IF ~Truthy(filterBy)
    THEN [ok |-> TRUE, filterGroup |-> Null, filterValue |-> Null]
  ELSE
    LET group == FindGroup(filterBy.chars)
    IN IF ~Truthy(group)
         THEN [ok |-> TRUE, filterGroup |-> filterBy, filterValue |-> Null]
       ELSE
         LET d == decode(StripGroup(filterBy.chars, group.chars))
         IN IF ~d.ok THEN [ok |-> FALSE]
            ELSE [ok |-> TRUE, filterGroup |-> group, filterValue |-> Str(d.chars)]

----------------------------------------------------------------------------
(* The bookSeries comparator of getSeriesMostRecentlyAdded *)

IsDigit(c) == c >= 48 /\ c <= 57

IsLetter(c) == (c >= 65 /\ c <= 90) \/ (c >= 97 /\ c <= 122)

\* position after the run of digits that starts at i
RECURSIVE DigitRunEnd(_, _)
DigitRunEnd(s, i) ==
  IF i > Len(s) \/ ~IsDigit(s[i]) THEN i ELSE DigitRunEnd(s, i + 1)

RECURSIVE DigitsValue(_, _)
DigitsValue(s, acc) ==
  IF s = <<>> THEN acc ELSE DigitsValue(Tail(s), 10 * acc + (Head(s) - 48))

\* primary collation elements under {numeric: true, sensitivity: 'base'}:
\* a run of digits is one element ordered by its numeric value, letters are
\* compared without case, and punctuation < digits < letters
RECURSIVE CollationKey(_, _, _)
CollationKey(s, i, acc) ==
  IF i > Len(s) THEN acc
  ELSE IF IsDigit(s[i])
    THEN LET j == DigitRunEnd(s, i)
         IN CollationKey(s, j, Append(acc, <<1, DigitsValue(SubSeq(s, i, j - 1), 0)>>))
  ELSE IF IsLetter(s[i])
    THEN CollationKey(s, i + 1, Append(acc, <<2, IF s[i] >= 97 THEN s[i] - 32 ELSE s[i]>>))
  ELSE CollationKey(s, i + 1, Append(acc, <<0, s[i]>>))

ElementLess(e, f) == e[1] < f[1] \/ (e[1] = f[1] /\ e[2] < f[2])

RECURSIVE CompareKeys(_, _)
CompareKeys(k, l) ==
  IF k = <<>> /\ l = <<>> THEN 0
  ELSE IF k = <<>> THEN -1
  ELSE IF l = <<>> THEN 1
  ELSE IF ElementLess(Head(k), Head(l)) THEN -1
  ELSE IF ElementLess(Head(l), Head(k)) THEN 1
  ELSE CompareKeys(Tail(k), Tail(l))

\* a.localeCompare(b, undefined, {numeric: true, sensitivity: 'base'})
localeCompare(a, b) == CompareKeys(CollationKey(a, 1, <<>>), CollationKey(b, 1, <<>>))

RECURSIVE CompareCodes(_, _)
CompareCodes(a, b) ==
  IF a = <<>> /\ b = <<>> THEN 0
  ELSE IF a = <<>> THEN -1
  ELSE IF b = <<>> THEN 1
  ELSE IF Head(a) < Head(b) THEN -1
  ELSE IF Head(a) > Head(b) THEN 1
  ELSE CompareCodes(Tail(a), Tail(b))

\* the comparator as it would be without the numeric option: character by
\* character, "10" before "2"
CompareSequence_NotNumeric(a, b) ==
  IF ~Truthy(a) THEN 1
  ELSE IF ~Truthy(b) THEN -1
  ELSE CompareCodes(a.chars, b.chars)

\* lines 186-193, on the two sequence values
CompareSequence(a, b) ==
  IF ~Truthy(a) THEN 1
  ELSE IF ~Truthy(b) THEN -1
  ELSE localeCompare(a.chars, b.chars)

\* the comparator as given to sort, on two bookSeries rows
bookSeriesComparator(x, y) == CompareSequence(x.sequence, y.sequence)

IndexPermutations(n) == {p \in [1..n -> 1..n] : \A i, j \in 1..n : i # j => p[i] # p[j]}

\* Array.prototype.sort(comparator): the orders a merge or insertion sort can
\* leave. No element is left behind one that the comparator puts strictly
\* after it; elements that compare equal keep their order (the sort is
\* stable); where the comparator contradicts itself (both orders answer 1),
\* the order of the two is the implementation's.
SortOutcomes(list) ==
  LET n == Len(list)
      answer == [i \in 1..n |-> [j \in 1..n |-> bookSeriesComparator(list[i], list[j])]]
      Before(i, j) == answer[i][j] < 0 /\ answer[j][i] > 0
      Equal(i, j) == answer[i][j] = 0 /\ answer[j][i] = 0
  IN {[i \in 1..n |-> list[p[i]]] :
        p \in {q \in IndexPermutations(n) :
                 \A i, j \in 1..n :
                   i < j => /\ ~Before(q[j], q[i])
                            /\ (Equal(q[i], q[j]) => q[i] < q[j])}}

----------------------------------------------------------------------------
(* Bounds of the model *)

\* largest limit a caller passes; a query delivers at most limit rows
MaxLimit == 2

\* bookSeries rows in a library, over all its series
MaxBookSeries == 2

\* characters of a filter token
MaxTokenLen == 3

\* characters of a sequence string handed to the comparator
MaxSequenceLen == 2

----------------------------------------------------------------------------
(* Inputs *)

MediaTypes == {"book", "podcast"}

Libraries == [id : {"lib1"}, mediaType : MediaTypes]

Users == {"u1", "u2"}

Includes == {<<>>, <<"rssfeed">>}

Limits == 1..MaxLimit

\* the ebook argument: omitted, false or true
EbookArgs == {Undefined, Bool(FALSE), Bool(TRUE)}

StorageErrors == {"SequelizeConnectionError", "SequelizeTimeoutError"}

\* Q = ! % 4 : a base64 character, the padding, a character outside base64,
\* the escape character, and a character that is a base64 and a hex digit
TokenAlphabet == {81, 61, 33, 37, 52}

Tokens == SeqsUpTo(TokenAlphabet, MaxTokenLen)

GroupNames == {searchGroups[i] : i \in 1..Len(searchGroups)}

\* filterBy values: absent, empty, a bare name, a group name followed by
\* other text without a dot, "<group>.<token>", and "<group>.<group>."
FilterBys ==
  {Undefined, Null}
    \cup {Str(t) : t \in Tokens}
    \cup {Str(g \o t) : g \in GroupNames, t \in Tokens}
    \cup {Str(Append(g, Dot) \o t) : g \in GroupNames, t \in Tokens}
    \cup {Str(Append(Append(g, Dot) \o h, Dot)) : g \in GroupNames, h \in GroupNames}

\* 0 1 2 a A
SequenceAlphabet == {48, 49, 50, 97, 65}

\* sequence values of a bookSeries row, for the comparator alone
SequenceValues ==
  {Null, Undefined} \cup {Str(t) : t \in SeqsUpTo(SequenceAlphabet, MaxSequenceLen)}

\* sequence values of the bookSeries rows storage delivers: none, empty,
\* "2" and "10"
RowSequences == {Null, Str(<<>>), Str(<<50>>), Str(<<49, 48>>)}

progressText == Str(<<112, 114, 111, 103, 114, 101, 115, 115>>)

ebookInProgressText ==
  Str(<<101, 98, 111, 111, 107, 45, 105, 110, 45, 112, 114, 111, 103, 114, 101, 115, 115>>)

audioInProgressText ==
  Str(<<97, 117, 100, 105, 111, 45, 105, 110, 45, 112, 114, 111, 103, 114, 101, 115, 115>>)

addedAtText == Str(<<97, 100, 100, 101, 100, 65, 116>>)

----------------------------------------------------------------------------
(* The collaborators: strategies, storage, projections *)

BookFilter == "libraryItemsBookFilters.getFilteredLibraryItems"

PodcastFilter == "libraryItemsPodcastFilters.getFilteredLibraryItems"

BookContinueSeries == "libraryItemsBookFilters.getContinueSeriesLibraryItems"

SeriesFindAndCountAll == "Database.models.series.findAndCountAll"

Feed(n) == [type |-> "feed", id |-> n]

SeriesRef(n) == [type |-> "series", id |-> n]

\* what a strategy row can carry besides its id: a feed or none, an item-level
\* size or none, a media size (0 or not), and, from the continue-series
\* query, a series annotation or none
RowAttributes(target) ==
  [rssFeed : {Undefined, Feed(1)},
   size : {Undefined, Num(5)},
   mediaSize : {Num(0), Num(7)},
   series : IF target = BookContinueSeries THEN {Undefined, SeriesRef(1)} ELSE {Undefined}]

\* the i-th row a strategy delivers
StrategyRow(i, a) ==
  [id |-> i, media |-> [size |-> a.mediaSize], rssFeed |-> a.rssFeed,
   size |-> a.size, series |-> a.series]

\* { libraryItems, count } values a strategy query can resolve with: at most
\* limit rows with attributes from attrs; count is the number of matches
\* before pagination, so it exceeds the number of rows only on a full page
StrategyResults(attrs, limit) ==
  UNION {{[libraryItems |-> [i \in 1..m |-> StrategyRow(i, f[i])], count |-> m + more] :
            f \in [1..m -> attrs], more \in IF m = limit THEN {0, 1} ELSE {0}} :
           m \in 0..limit}

\* the results of a strategy query of a shelf; the Book strategy finds no
\* book in a library of another media type
ShelfResults(query, library) ==
  IF query.target # PodcastFilter /\ library.mediaType # "book"
    THEN {[libraryItems |-> <<>>, count |-> 0]}
  ELSE StrategyResults(RowAttributes(query.target), query.limit)

\* the results of the query of getFilteredLibraryItems, which hands them back
\* untouched: one combination of row attributes
FilteredResults(query) ==
  StrategyResults({[rssFeed |-> Undefined, size |-> Num(5), mediaSize |-> Num(7),
                    series |-> Undefined]}, query.limit)

\* Database.models.libraryItem.getOldLibraryItem(li).toJSONMinified()
OldLibraryItemMinified(li) ==
  [id |-> li.id,
   media |-> [size |-> li.media.size, metadata |-> [series |-> Undefined]],
   rssFeed |-> Undefined]

\* Database.models.feed.getOldFeed(feed).toJSONMinified()
OldFeedMinified(feed) == [type |-> "feedMinified", id |-> feed.id]

Arr(items) == [type |-> "array", items |-> items]

RECURSIVE SumTo(_, _)
SumTo(c, k) == IF k = 0 THEN 0 ELSE c[k] + SumTo(c, k - 1)

\* the k-th bookSeries row of series i, with its book and the book's
\* libraryItem loaded
BookSeriesRow(i, k, sequence) ==
  [id |-> 10 * i + k,
   sequence |-> sequence,
   book |-> [id |-> 100 + 10 * i + k,
             libraryItem |-> [type |-> "libraryItem", id |-> 200 + 10 * i + k]]]

\* the i-th of n series rows: storage orders them by createdAt descending
SeriesRow(i, n, feeds, sequences) ==
  [id |-> i,
   createdAt |-> n + 1 - i,
   feeds |-> feeds,
   bookSeries |-> [k \in 1..Len(sequences) |-> BookSeriesRow(i, k, sequences[k])]]

\* the ways to spread at most MaxBookSeries bookSeries rows over n series
BookSeriesCounts(n) == {d \in [1..n -> 0..MaxBookSeries] : SumTo(d, n) <= MaxBookSeries}

\* the results with n series whose i-th has c[i] bookSeries rows; count is
\* the number of series of the library, more than n only on a full page
SeriesResultsOf(n, c, feedChoices, limit) ==
  {[rows |-> [i \in 1..n |->
                SeriesRow(i, n, f[i], [k \in 1..c[i] |-> v[SumTo(c, i - 1) + k]])],
    count |-> n + more] :
     v \in [1..SumTo(c, n) -> RowSequences], f \in [1..n -> feedChoices],
     more \in IF n = limit THEN {0, 1} ELSE {0}}

\* { rows, count } values findAndCountAll can resolve with: at most limit
\* series, each with its bookSeries rows in no particular order, and its
\* feeds when the feed model was included; only a book library has series
SeriesResults(query, library) ==
  LET feedChoices == IF query.includeFeed THEN {Arr(<<>>), Arr(<<Feed(1)>>)} ELSE {Undefined}
  IN IF library.mediaType # "book" THEN {[rows |-> <<>>, count |-> 0]}
     ELSE UNION {UNION {SeriesResultsOf(n, c, feedChoices, query.limit) :
                          c \in BookSeriesCounts(n)} :
                   n \in 0..query.limit}

\* s.getOldSeries().toJSON()
OldSeriesJSON(s) == [id |-> s.id, rssFeed |-> Undefined, books |-> <<>>]

----------------------------------------------------------------------------
(* State *)

VARIABLES
  pc,         \* "idle", "awaiting" (suspended on the query) or "done"
  call,       \* the operation in progress and its arguments
  queries,    \* the strategy and storage queries the call has issued
  delivered,  \* what the query resolved or rejected with, as it was then
  heap,       \* the rows storage handed over, as they are now
  outcome,    \* what the call returned or threw
  cmpIn,      \* the two sequence values given to the comparator
  cmpOut      \* its answers, for (a, b) and for (b, a)

vars == <<pc, call, queries, delivered, heap, outcome, cmpIn, cmpOut>>

NoCall == [op |-> "none"]

Nothing == [kind |-> "none"]

Returned(v) == [kind |-> "returned", value |-> v]

Threw(e) == [kind |-> "threw", error |-> e]

Init ==
  /\ pc = "idle"
  /\ call = NoCall
  /\ queries = <<>>
  /\ delivered = Nothing
  /\ heap = <<>>
  /\ outcome = Nothing
  /\ cmpIn = <<Null, Null>>
  /\ cmpOut = <<>>

----------------------------------------------------------------------------
(* getFilteredLibraryItems *)

\* the options of a call to a library: every filterBy, the library's media
\* type, and one setting of the options handed through untouched
FilterOptions(library) ==
  [filterBy : FilterBys, sortBy : {addedAtText}, sortDesc : {TRUE}, limit : {1},
   offset : {0}, collapseseries : {TRUE}, include : {<<>>},
   mediaType : {library.mediaType}]

\* lines 30-34: the strategy call the parsed filter is handed to
FilteredQuery(library, userId, options, parsed) ==
  IF options.mediaType = "book"
    THEN [target |-> BookFilter, libraryId |-> library.id, userId |-> userId,
          filterGroup |-> parsed.filterGroup, filterValue |-> parsed.filterValue,
          sortBy |-> options.sortBy, sortDesc |-> options.sortDesc,
          collapseseries |-> options.collapseseries, include |-> options.include,
          limit |-> options.limit, offset |-> options.offset]
  ELSE [target |-> PodcastFilter, libraryId |-> library.id, userId |-> userId,
        filterGroup |-> parsed.filterGroup, filterValue |-> parsed.filterValue,
        sortBy |-> options.sortBy, sortDesc |-> options.sortDesc,
        include |-> options.include, limit |-> options.limit, offset |-> options.offset]

\* lines 18-34: parse the filter; a decode that throws ends the call, else
\* the strategy's promise is returned
CallGetFilteredLibraryItems ==
  /\ pc = "idle"
  /\ \E library \in Libraries :
     \E options \in FilterOptions(library) :
       LET parsed == ParseFilterBy(options.filterBy)
       IN /\ call' = [op |-> "getFilteredLibraryItems", library |-> library,
                      userId |-> "u1", options |-> options]
          /\ IF parsed.ok
               THEN /\ queries' = <<FilteredQuery(library, "u1", options, parsed)>>
                    /\ pc' = "awaiting"
                    /\ outcome' = Nothing
             ELSE /\ queries' = <<>>
                  /\ pc' = "done"
                  /\ outcome' = Threw("URIError")
  /\ UNCHANGED <<delivered, heap, cmpIn, cmpOut>>

\* the returned promise resolves with the strategy's own result
ResolveGetFilteredLibraryItems ==
  /\ pc = "awaiting"
  /\ call.op = "getFilteredLibraryItems"
  /\ \E result \in FilteredResults(queries[1]) :
       /\ delivered' = Returned(result)
       /\ heap' = result.libraryItems
       /\ outcome' = Returned(result)
  /\ pc' = "done"
  /\ UNCHANGED <<call, queries, cmpIn, cmpOut>>

----------------------------------------------------------------------------
(* The item shelves *)


\* lines 52-56
EnrichInProgress(li) ==
  LET oldLibraryItem == OldLibraryItemMinified(li)
  IN IF Truthy(li.rssFeed)
       THEN [oldLibraryItem EXCEPT !.rssFeed = OldFeedMinified(li.rssFeed)]
     ELSE oldLibraryItem

\* the enrichment as it would be if the item size replaced a media size
EnrichMostRecentlyAdded_AlwaysItemSize(li) ==
  LET withFeed == EnrichInProgress(li)
  IN IF Truthy(li.size)
       THEN [withFeed EXCEPT !.media.size = li.size]
     ELSE withFeed

\* lines 81-88 and 96-103
EnrichMostRecentlyAdded(li) ==
  LET withFeed == EnrichInProgress(li)
  IN IF Truthy(li.size) /\ ~Truthy(withFeed.media.size)
       THEN [withFeed EXCEPT !.media.size = li.size]
     ELSE withFeed

\* lines 122-129
EnrichContinueSeries(li) ==
  LET withFeed == EnrichInProgress(li)
  IN IF Truthy(li.series)
       THEN [withFeed EXCEPT !.media.metadata.series = li.series]
     ELSE withFeed

\* line 46: ebook = false when the argument is omitted
EbookOrDefault(ebook) == IF ebook = Undefined THEN Bool(FALSE) ELSE ebook

\* the test of line 47 as it would be if every library were queried
InProgressQueriesLibrary_AnyLibrary(library) == TRUE

\* line 47
InProgressQueriesLibrary(library) == library.mediaType = "book"

\* line 48 with its two values exchanged
InProgressFilterValue_Exchanged(ebook) ==
  IF Truthy(ebook) THEN audioInProgressText ELSE ebookInProgressText

\* line 48
InProgressFilterValue(ebook) ==
  IF Truthy(ebook) THEN ebookInProgressText ELSE audioInProgressText

\* line 49
InProgressQuery(library, userId, include, limit, ebook) ==
  [target |-> BookFilter, libraryId |-> library.id, userId |-> userId,
   filterGroup |-> progressText, filterValue |-> InProgressFilterValue(ebook),
   sortBy |-> progressText, sortDesc |-> TRUE, collapseseries |-> FALSE,
   include |-> include, limit |-> limit, offset |-> 0]

\* lines 46-49 and 60-65: a book library suspends on the Book strategy, any
\* other library returns the empty shelf at once
CallGetLibraryItemsInProgress ==
  /\ pc = "idle"
  /\ \E library \in Libraries, userId \in Users, include \in Includes,
        limit \in Limits, ebook \in EbookArgs :
       /\ call' = [op |-> "getLibraryItemsInProgress", library |-> library,
                   userId |-> userId, include |-> include, limit |-> limit,
                   ebook |-> ebook]
       /\ IF InProgressQueriesLibrary(library)
            THEN /\ queries' = <<InProgressQuery(library, userId, include, limit,
                                                 EbookOrDefault(ebook))>>
                 /\ pc' = "awaiting"
                 /\ outcome' = Nothing
          ELSE /\ queries' = <<>>
               /\ pc' = "done"
               /\ outcome' = Returned([libraryItems |-> <<>>, count |-> 0])
  /\ UNCHANGED <<delivered, heap, cmpIn, cmpOut>>

\* lines 49-59
ResolveGetLibraryItemsInProgress ==
  /\ pc = "awaiting"
  /\ call.op = "getLibraryItemsInProgress"
  /\ \E result \in ShelfResults(queries[1], call.library) :
       /\ delivered' = Returned(result)
       /\ heap' = result.libraryItems
       /\ outcome' = Returned([libraryItems |-> [i \in 1..Len(result.libraryItems) |-> EnrichInProgress(result.libraryItems[i])],
                               count |-> result.count])
  /\ pc' = "done"
  /\ UNCHANGED <<call, queries, cmpIn, cmpOut>>

\* lines 78 and 93
MostRecentlyAddedQuery(library, userId, include, limit) ==
  IF library.mediaType = "book"
    THEN [target |-> BookFilter, libraryId |-> library.id, userId |-> userId,
          filterGroup |-> Null, filterValue |-> Null, sortBy |-> addedAtText,
          sortDesc |-> TRUE, collapseseries |-> FALSE, include |-> include,
          limit |-> limit, offset |-> 0]
  ELSE [target |-> PodcastFilter, libraryId |-> library.id, userId |-> userId,
        filterGroup |-> Null, filterValue |-> Null, sortBy |-> addedAtText,
        sortDesc |-> TRUE, include |-> include, limit |-> limit, offset |-> 0]

\* lines 76-78 and 93
CallGetLibraryItemsMostRecentlyAdded ==
  /\ pc = "idle"
  /\ \E library \in Libraries, userId \in Users, include \in Includes, limit \in Limits :
       /\ call' = [op |-> "getLibraryItemsMostRecentlyAdded", library |-> library,
                   userId |-> userId, include |-> include, limit |-> limit]
       /\ queries' = <<MostRecentlyAddedQuery(library, userId, include, limit)>>
  /\ pc' = "awaiting"
  /\ outcome' = Nothing
  /\ UNCHANGED <<delivered, heap, cmpIn, cmpOut>>

\* lines 79-91 and 94-106
ResolveGetLibraryItemsMostRecentlyAdded ==
  /\ pc = "awaiting"
  /\ call.op = "getLibraryItemsMostRecentlyAdded"
  /\ \E result \in ShelfResults(queries[1], call.library) :
       /\ delivered' = Returned(result)
       /\ heap' = result.libraryItems
       /\ outcome' = Returned([libraryItems |->
                                 [i \in 1..Len(result.libraryItems) |-> EnrichMostRecentlyAdded(result.libraryItems[i])],
                               count |-> result.count])
  /\ pc' = "done"
  /\ UNCHANGED <<call, queries, cmpIn, cmpOut>>

\* line 119
ContinueSeriesQuery(library, userId, include, limit) ==
  [target |-> BookContinueSeries, libraryId |-> library.id, userId |-> userId,
   include |-> include, limit |-> limit, offset |-> 0]

\* the call as it would be with the guard of getLibraryItemsInProgress
CallGetLibraryItemsContinueSeries_Guarded ==
  /\ pc = "idle"
  /\ \E library \in Libraries, userId \in Users, include \in Includes, limit \in Limits :
       /\ call' = [op |-> "getLibraryItemsContinueSeries", library |-> library,
                   userId |-> userId, include |-> include, limit |-> limit]
       /\ IF library.mediaType = "book"
            THEN /\ queries' = <<ContinueSeriesQuery(library, userId, include, limit)>>
                 /\ pc' = "awaiting"
                 /\ outcome' = Nothing
          ELSE /\ queries' = <<>>
               /\ pc' = "done"
               /\ outcome' = Returned([libraryItems |-> <<>>, count |-> 0])
  /\ UNCHANGED <<delivered, heap, cmpIn, cmpOut>>

\* lines 118-119: the library's media type is not looked at
CallGetLibraryItemsContinueSeries ==
  /\ pc = "idle"
  /\ \E library \in Libraries, userId \in Users, include \in Includes, limit \in Limits :
       /\ call' = [op |-> "getLibraryItemsContinueSeries", library |-> library,
                   userId |-> userId, include |-> include, limit |-> limit]
       /\ queries' = <<ContinueSeriesQuery(library, userId, include, limit)>>
  /\ pc' = "awaiting"
  /\ outcome' = Nothing
  /\ UNCHANGED <<delivered, heap, cmpIn, cmpOut>>

\* lines 120-132
ResolveGetLibraryItemsContinueSeries ==
  /\ pc = "awaiting"
  /\ call.op = "getLibraryItemsContinueSeries"
  /\ \E result \in ShelfResults(queries[1], call.library) :
       /\ delivered' = Returned(result)
       /\ heap' = result.libraryItems
       /\ outcome' = Returned([libraryItems |->
                                 [i \in 1..Len(result.libraryItems) |-> EnrichContinueSeries(result.libraryItems[i])],
                               count |-> result.count])
  /\ pc' = "done"
  /\ UNCHANGED <<call, queries, cmpIn, cmpOut>>

----------------------------------------------------------------------------
(* getSeriesMostRecentlyAdded *)

\* lines 143-173
SeriesQuery(library, include, limit) ==
  [target |-> SeriesFindAndCountAll, libraryId |-> library.id, limit |-> limit,
   offset |-> 0, includeFeed |-> \E i \in 1..Len(include) : include[i] = "rssfeed",
   order |-> <<"createdAt", "DESC">>]

\* lines 142-173
CallGetSeriesMostRecentlyAdded ==
  /\ pc = "idle"
  /\ \E library \in Libraries, include \in Includes, limit \in Limits :
       /\ call' = [op |-> "getSeriesMostRecentlyAdded", library |-> library,
                   include |-> include, limit |-> limit]
       /\ queries' = <<SeriesQuery(library, include, limit)>>
  /\ pc' = "awaiting"
  /\ outcome' = Nothing
  /\ UNCHANGED <<delivered, heap, cmpIn, cmpOut>>

\* line 181
HasFeeds(s) == s.feeds.type = "array" /\ Len(s.feeds.items) > 0

\* lines 195-199: the item built from one bookSeries row
BookSeriesItem(bs) == [id |-> bs.book.libraryItem.id, media |-> [id |-> bs.book.id]]

\* line 196: the row after delete bs.book.libraryItem
WithoutLibraryItem(bs) == [bs EXCEPT !.book.libraryItem = Undefined]

\* lines 179-201, for one series whose bookSeries the sort has left as sorted
OldSeriesOf(s, sorted) ==
  [OldSeriesJSON(s) EXCEPT
     !.rssFeed = IF HasFeeds(s) THEN OldFeedMinified(s.feeds.items[1]) ELSE @,
     !.books = [i \in 1..Len(sorted) |-> BookSeriesItem(sorted[i])]]

\* the series row as the loop body leaves it: sorted in place, every book
\* without its libraryItem
SeriesRowAfter(s, sorted) ==
  [s EXCEPT !.bookSeries = [i \in 1..Len(sorted) |-> WithoutLibraryItem(sorted[i])]]

\* the ways the sorts of rows i.. can come out, one order per series
RECURSIVE SortedFrom(_, _)
SortedFrom(rows, i) ==
  IF i > Len(rows) THEN {<<>>}
  ELSE {<<x>> \o rest : x \in SortOutcomes(rows[i].bookSeries),
                        rest \in SortedFrom(rows, i + 1)}

\* lines 175-207
ResolveGetSeriesMostRecentlyAdded ==
  /\ pc = "awaiting"
  /\ call.op = "getSeriesMostRecentlyAdded"
  /\ \E result \in SeriesResults(queries[1], call.library) :
       \E sorted \in SortedFrom(result.rows, 1) :
         /\ delivered' = Returned(result)
         /\ heap' = [i \in 1..Len(result.rows) |-> SeriesRowAfter(result.rows[i], sorted[i])]
         /\ outcome' = Returned([series |-> [i \in 1..Len(result.rows) |->
                                               OldSeriesOf(result.rows[i], sorted[i])],
                                 count |-> result.count])
  /\ pc' = "done"
  /\ UNCHANGED <<call, queries, cmpIn, cmpOut>>

----------------------------------------------------------------------------
(* Failure of the query, the end of a call, and the specification *)

\* the failure as it would be if a handler caught it and returned nothing
QueryRejects_Swallowed ==
  /\ pc = "awaiting"
  /\ \E e \in StorageErrors :
       /\ delivered' = Threw(e)
       /\ outcome' = Returned([libraryItems |-> <<>>, count |-> 0])
  /\ pc' = "done"
  /\ UNCHANGED <<call, queries, heap, cmpIn, cmpOut>>

\* no handler catches: the rejection of the awaited (or returned) promise is
\* the rejection of the call
QueryRejects ==
  /\ pc = "awaiting"
  /\ \E e \in StorageErrors :
       /\ delivered' = Threw(e)
       /\ outcome' = Threw(e)
  /\ pc' = "done"
  /\ UNCHANGED <<call, queries, heap, cmpIn, cmpOut>>

\* the caller has the outcome; the next call starts from nothing
Respond ==
  /\ pc = "done"
  /\ pc' = "idle"
  /\ call' = NoCall
  /\ queries' = <<>>
  /\ delivered' = Nothing
  /\ heap' = <<>>
  /\ outcome' = Nothing
  /\ UNCHANGED <<cmpIn, cmpOut>>

Next ==
  \/ CallGetFilteredLibraryItems
  \/ ResolveGetFilteredLibraryItems
  \/ CallGetLibraryItemsInProgress
  \/ ResolveGetLibraryItemsInProgress
  \/ CallGetLibraryItemsMostRecentlyAdded
  \/ ResolveGetLibraryItemsMostRecentlyAdded
  \/ CallGetLibraryItemsContinueSeries
  \/ ResolveGetLibraryItemsContinueSeries
  \/ CallGetSeriesMostRecentlyAdded
  \/ ResolveGetSeriesMostRecentlyAdded
  \/ QueryRejects
  \/ Respond

Spec == Init /\ [][Next]_vars

----------------------------------------------------------------------------
(* The comparator on its own *)

InitCompare ==
  /\ pc = "idle"
  /\ call = NoCall
  /\ queries = <<>>
  /\ delivered = Nothing
  /\ heap = <<>>
  /\ outcome = Nothing
  /\ cmpIn \in SequenceValues \X SequenceValues
  /\ cmpOut = <<>>

\* the comparator is asked about the two rows, in both orders
Compare ==
  /\ cmpOut = <<>>
  /\ cmpOut' = <<CompareSequence(cmpIn[1], cmpIn[2]), CompareSequence(cmpIn[2], cmpIn[1])>>
  /\ UNCHANGED <<pc, call, queries, delivered, heap, outcome, cmpIn>>

NextCompare == Compare

SpecCompare == InitCompare /\ [][NextCompare]_vars

----------------------------------------------------------------------------
(* Properties *)

InOp(op) == call.op = op

NonBook(library) == library.mediaType # "book"

EmptyShelf == Returned([libraryItems |-> <<>>, count |-> 0])

\* C1: getLibraryItemsInProgress on a library that is not a book library has
\* returned exactly { libraryItems: [], count: 0 }, whatever ebook, userId,
\* include and limit are, and has issued no query.
C1_InProgressNonBookEmpty ==
  (InOp("getLibraryItemsInProgress") /\ NonBook(call.library))
    => /\ pc = "done"
       /\ queries = <<>>
       /\ delivered = Nothing
       /\ outcome = EmptyShelf

C1_Witness ==
  /\ InOp("getLibraryItemsInProgress")
  /\ call.library.mediaType = "podcast"
  /\ call.ebook = Bool(TRUE)
  /\ call.limit = MaxLimit
  /\ outcome = EmptyShelf

\* C2, as stated: a finished getLibraryItemsContinueSeries on a library that
\* is not a book library has returned the empty shelf, never an error.
C2_ContinueSeriesNonBookEmpty ==
  (InOp("getLibraryItemsContinueSeries") /\ NonBook(call.library) /\ pc = "done")
    => outcome = EmptyShelf

\* C2, amended: getLibraryItemsContinueSeries does not look at the media
\* type: on a library that is not a book library it issues the one
\* continue-series query of the Book strategy; it returns the shelf built from
\* the rows of that query (empty when there are none) when the query
\* succeeds, and ends with the query's error when it fails.
C2_ContinueSeriesNonBookQueries ==
  (InOp("getLibraryItemsContinueSeries") /\ NonBook(call.library))
    => /\ queries = <<[target |-> BookContinueSeries, libraryId |-> call.library.id,
                       userId |-> call.userId, include |-> call.include,
                       limit |-> call.limit, offset |-> 0]>>
       /\ pc = "done" =>
            IF delivered.kind = "threw"
              THEN outcome = Threw(delivered.error)
            ELSE /\ outcome.kind = "returned"
                 /\ Len(outcome.value.libraryItems) = Len(delivered.value.libraryItems)
                 /\ outcome.value.count = delivered.value.count

C2_Witness ==
  /\ InOp("getLibraryItemsContinueSeries")
  /\ NonBook(call.library)
  /\ pc = "done"
  /\ Len(queries) = 1
  /\ outcome.kind = "threw"

\* the known groups filterBy starts with, each followed by a dot
GroupsOf(filterBy) ==
  {g \in GroupNames : Len(filterBy) > Len(g) /\ SubSeq(filterBy, 1, Len(g) + 1) = Append(g, Dot)}

\* filterBy without its first n characters
DropFirst(filterBy, n) == SubSeq(filterBy, n + 1, Len(filterBy))

\* C3: filter parsing. A null or empty filterBy gives group and value null;
\* a filterBy that starts with "<g>." for a known group g gives group g and
\* value decode(the rest after that prefix), the call failing when decode
\* does; any other filterBy, a bare group name and a group name followed by
\* something else than a dot included, gives group filterBy and value null.
\* No filterBy starts with two known groups.
C3_FilterParsing ==
  InOp("getFilteredLibraryItems") =>
    LET filterBy == call.options.filterBy
        parsedAs(group, value) ==
          /\ Len(queries) = 1
          /\ queries[1].filterGroup = group
          /\ queries[1].filterValue = value
    IN IF ~IsStr(filterBy) \/ filterBy = Str(<<>>)
         THEN parsedAs(Null, Null)
       ELSE
         LET groups == GroupsOf(filterBy.chars)
         IN /\ Cardinality(groups) <= 1
            /\ \A g \in groups :
                 LET value == decode(DropFirst(filterBy.chars, Len(g) + 1))
                 IN IF value.ok THEN parsedAs(Str(g), Str(value.chars))
                    ELSE queries = <<>> /\ outcome.kind = "threw"
            /\ groups = {} => parsedAs(filterBy, Null)

\* "genres.QQ" has reached the strategy as group "genres", value "A"
C3_Witness ==
  /\ InOp("getFilteredLibraryItems")
  /\ pc = "awaiting"
  /\ call.options.filterBy = Str(searchGroups[1] \o <<Dot, 81, 81>>)
  /\ queries[1].filterGroup = Str(searchGroups[1])
  /\ queries[1].filterValue = Str(<<65>>)

\* C4, as stated: the comparator is a total order on the sequence values:
\* compare(a, a) = 0, compare(a, b) and compare(b, a) are opposite, a <= b
\* and b <= c give a <= c, and a null or empty sequence is strictly after
\* every non-empty one.
C4_ComparatorTotalOrder ==
  cmpOut # <<>> =>
    LET a == cmpIn[1]
        b == cmpIn[2]
    IN /\ a = b => cmpOut[1] = 0
       /\ cmpOut[1] = -cmpOut[2]
       /\ \A c \in SequenceValues :
            (cmpOut[1] <= 0 /\ CompareSequence(b, c) <= 0) => CompareSequence(a, c) <= 0
       /\ (~Truthy(a) /\ Truthy(b)) => (cmpOut[1] > 0 /\ cmpOut[2] < 0)

SeriesDone ==
  /\ InOp("getSeriesMostRecentlyAdded")
  /\ pc = "done"
  /\ delivered.kind = "returned"

\* position in the sequence order: a sequence of digits by its number, a null
\* or empty sequence after every number
SequenceRank(sequence) ==
  IF Truthy(sequence) THEN <<0, DigitsValue(sequence.chars, 0)>> ELSE <<1, 0>>

RankNotAfter(r, q) == r[1] < q[1] \/ (r[1] = q[1] /\ r[2] <= q[2])

\* the sequence of the bookSeries row of series s that a returned book came from
SequenceOfBook(s, book) ==
  LET k == CHOOSE k \in 1..Len(s.bookSeries) : s.bookSeries[k].book.id = book.media.id
  IN s.bookSeries[k].sequence

\* C5: getSeriesMostRecentlyAdded returns every series row storage delivered,
\* in the order delivered (createdAt descending); the books of each series
\* are its bookSeries rows, each once, in ascending order of sequence compared
\* as numbers ("2" before "10") with null and empty sequences last; a series
\* without bookSeries rows has no books.
C5_SeriesAndBooksOrdered ==
  SeriesDone =>
    LET rows == delivered.value.rows
        series == outcome.value.series
    IN /\ outcome.kind = "returned"
       /\ Len(series) = Len(rows)
       /\ \A i \in 1..Len(rows) :
            /\ series[i].id = rows[i].id
            /\ \A j \in 1..Len(rows) : i < j => rows[i].createdAt > rows[j].createdAt
            /\ Len(series[i].books) = Len(rows[i].bookSeries)
            /\ \A k \in 1..Len(rows[i].bookSeries) :
                 Cardinality({l \in 1..Len(series[i].books) :
                                /\ series[i].books[l].id = rows[i].bookSeries[k].book.libraryItem.id
                                /\ series[i].books[l].media.id = rows[i].bookSeries[k].book.id}) = 1
            /\ \A k, l \in 1..Len(series[i].books) :
                 k < l => RankNotAfter(SequenceRank(SequenceOfBook(rows[i], series[i].books[k])),
                                       SequenceRank(SequenceOfBook(rows[i], series[i].books[l])))

\* two series delivered, the first with books sequenced "10", then "2", the
\* second without books: the first comes back with "2" before "10"
C5_Witness ==
  /\ SeriesDone
  /\ Len(delivered.value.rows) = 2
  /\ Len(delivered.value.rows[1].bookSeries) = 2
  /\ delivered.value.rows[1].bookSeries[1].sequence = Str(<<49, 48>>)
  /\ delivered.value.rows[1].bookSeries[2].sequence = Str(<<50>>)
  /\ delivered.value.rows[2].bookSeries = <<>>
  /\ outcome.value.series[1].books[1].media.id = delivered.value.rows[1].bookSeries[2].book.id
  /\ outcome.value.series[2].books = <<>>

\* C6: a query that fails ends the call with that same error: the call has
\* issued that one query and no other, it is over, and what it gave its
\* caller is the error, not a result. No call issues more than one query.
C6_QueryErrorPropagates ==
  /\ Len(queries) <= 1
  /\ delivered.kind = "threw" =>
       /\ pc = "done"
       /\ Len(queries) = 1
       /\ outcome = Threw(delivered.error)

\* the series query has failed with a timeout, and so has the call
C6_Witness ==
  /\ InOp("getSeriesMostRecentlyAdded")
  /\ delivered = Threw("SequelizeTimeoutError")
  /\ outcome = Threw("SequelizeTimeoutError")

\* text that is base64: characters of the alphabet, then at most two '='
IsBase64(s) ==
  \E n \in 0..Len(s) :
    /\ Len(s) - n <= 2
    /\ \A i \in 1..Len(s) : IF i <= n THEN Base64Val(s[i]) >= 0 ELSE s[i] = EqualsSign

RECURSIVE IsUtf8From(_, _)
IsUtf8From(bs, i) ==
  IF i > Len(bs) THEN TRUE
  ELSE LET n == Utf8Length(bs[i])
       IN /\ n > 0
          /\ Utf8Matched(bs, i, 2) = n
          /\ IsUtf8From(bs, i + n)

\* the token of a filterBy "<known group>.<token>"
HasToken(filterBy) == IsStr(filterBy) /\ GroupsOf(filterBy.chars) # {}

TokenOf(filterBy) ==
  DropFirst(filterBy.chars, Len(CHOOSE g \in GroupsOf(filterBy.chars) : TRUE) + 1)

\* a token decode is said to refuse: not base64, or base64 of bytes that are
\* not text
IsMalformedToken(t) ==
  LET u == decodeURIComponent(t)
  IN \/ ~u.ok
     \/ ~IsBase64(u.chars)
     \/ ~IsUtf8From(Base64ToBytes(u.chars), 1)

\* C7, as stated: getFilteredLibraryItems with "<known group>.<malformed
\* token>" ends in a decode error and never reaches a strategy.
C7_MalformedTokenFails ==
  (InOp("getFilteredLibraryItems") /\ HasToken(call.options.filterBy)
     /\ IsMalformedToken(TokenOf(call.options.filterBy)))
    => /\ pc = "done"
       /\ queries = <<>>
       /\ outcome.kind = "threw"

\* C7, amended: decode fails exactly when percent-decoding the token fails (a
\* malformed escape); characters that are not base64 are skipped and bytes
\* that are not text become U+FFFD, without an error. So
\* getFilteredLibraryItems with "<known group>.<token>" ends in that error
\* without reaching a strategy when the token has a malformed escape, and
\* otherwise reaches the strategy with the text so decoded, a token that is
\* not base64 or not text included.
C7_OnlyMalformedEscapeFails ==
  (InOp("getFilteredLibraryItems") /\ HasToken(call.options.filterBy))
    => LET u == decodeURIComponent(TokenOf(call.options.filterBy))
       IN IF ~u.ok
            THEN /\ pc = "done"
                 /\ queries = <<>>
                 /\ outcome = Threw("URIError")
          ELSE /\ Len(queries) = 1
               /\ queries[1].filterValue = Str(Utf8ToString(Base64ToBytes(u.chars), 1, <<>>))
               /\ outcome.kind = "threw" => delivered.kind = "threw"

\* a token that is not base64 has reached the strategy, decoded to "C", and
\* the strategy has answered
C7_Witness ==
  /\ InOp("getFilteredLibraryItems")
  /\ HasToken(call.options.filterBy)
  /\ IsMalformedToken(TokenOf(call.options.filterBy))
  /\ decodeURIComponent(TokenOf(call.options.filterBy)).ok
  /\ ~IsBase64(TokenOf(call.options.filterBy))
  /\ pc = "done"
  /\ outcome.kind = "returned"
  /\ queries[1].filterValue = Str(<<67>>)

\* C8: getLibraryItemsInProgress on a book library issues one query, of the
\* Book strategy: group 'progress', value 'ebook-in-progress' when ebook is
\* true and 'audio-in-progress' when it is false or omitted, sorted by
\* 'progress' descending, collapseSeries false, offset 0, and the caller's
\* userId, include and limit.
C8_InProgressQuery ==
  (InOp("getLibraryItemsInProgress") /\ call.library.mediaType = "book")
    => queries = <<[target |-> BookFilter, libraryId |-> call.library.id,
                    userId |-> call.userId, filterGroup |-> progressText,
                    filterValue |-> IF call.ebook = Bool(TRUE) THEN ebookInProgressText
                                    ELSE audioInProgressText,
                    sortBy |-> progressText, sortDesc |-> TRUE, collapseseries |-> FALSE,
                    include |-> call.include, limit |-> call.limit, offset |-> 0]>>

\* the shelf was asked without the ebook argument, for user u2 with feeds
C8_Witness ==
  /\ InOp("getLibraryItemsInProgress")
  /\ call.library.mediaType = "book"
  /\ call.ebook = Undefined
  /\ call.userId = "u2"
  /\ call.include = <<"rssfeed">>
  /\ pc = "awaiting"
  /\ queries[1].filterValue = audioInProgressText

\* C9, as stated: when getSeriesMostRecentlyAdded has returned, the rows
\* storage handed over are as they were delivered.
C9_StorageRowsUnchanged == SeriesDone => heap = delivered.value.rows

ItemShelves ==
  {"getLibraryItemsInProgress", "getLibraryItemsMostRecentlyAdded",
   "getLibraryItemsContinueSeries"}

ShelfDone ==
  /\ call.op \in ItemShelves
  /\ pc = "done"
  /\ delivered.kind = "returned"

\* C10: the three item shelves only add to what the strategy delivered: as
\* many items as rows, the i-th item the projection of the i-th row, the
\* strategy's count whatever the limit; an item has an rssFeed only if its
\* row has a feed; media.size differs from the projection's only in
\* most-recently-added, only when the projection has no size and the row has,
\* and then it is the row's size.
C10_EnrichmentAdditive ==
  ShelfDone =>
    LET rows == delivered.value.libraryItems
        items == outcome.value.libraryItems
    IN /\ outcome.kind = "returned"
       /\ Len(items) = Len(rows)
       /\ outcome.value.count = delivered.value.count
       /\ \A i \in 1..Len(rows) :
            LET projection == OldLibraryItemMinified(rows[i])
            IN /\ items[i].id = rows[i].id
               /\ [items[i] EXCEPT !.rssFeed = projection.rssFeed,
                                   !.media.size = projection.media.size,
                                   !.media.metadata.series = projection.media.metadata.series]
                    = projection
               /\ items[i].rssFeed # Undefined =>
                    /\ rows[i].rssFeed # Undefined
                    /\ items[i].rssFeed = OldFeedMinified(rows[i].rssFeed)
               /\ items[i].media.size # projection.media.size =>
                    /\ InOp("getLibraryItemsMostRecentlyAdded")
                    /\ ~Truthy(projection.media.size)
                    /\ Truthy(rows[i].size)
                    /\ items[i].media.size = rows[i].size

\* most-recently-added delivered a full page of two rows out of three
\* matches: the first with its own media size and a feed, the second with
\* none but an item size, which it got
C10_Witness ==
  /\ ShelfDone
  /\ InOp("getLibraryItemsMostRecentlyAdded")
  /\ Len(delivered.value.libraryItems) = 2
  /\ delivered.value.count = 3
  /\ outcome.value.count = 3
  /\ delivered.value.libraryItems[1].media.size = Num(7)
  /\ delivered.value.libraryItems[1].size = Num(5)
  /\ delivered.value.libraryItems[1].rssFeed = Feed(1)
  /\ delivered.value.libraryItems[2].media.size = Num(0)
  /\ delivered.value.libraryItems[2].size = Num(5)
  /\ outcome.value.libraryItems[1].media.size = Num(7)
  /\ outcome.value.libraryItems[2].media.size = Num(5)

============================================================================
